---- MODULE Spec2Model ----
(***************************************************************************)
(* Model of the WildfireProximityApp React component                       *)
(* (src/src/components/WildfireProximityApp.jsx, the component that starts *)
(* at line 569): geocoding, the wildfire and hotspot fetchers, the         *)
(* sessionStorage cache with its 10-minute expiry and clearing timer, the  *)
(* risk classifier and the searchWildfires orchestrator.                   *)
(*                                                                         *)
(* Conventions                                                             *)
(*   - an optional value (null / undefined / a missing storage item) is a  *)
(*     sequence of length 0 or 1: None, Some(v);                           *)
(*   - time is counted in minutes (Date.now() / 60000);                    *)
(*   - coordinates are in hundredths of a degree, distances in whole km;   *)
(*   - JS Number arithmetic of calculateDistance is carried out in fixed   *)
(*     point (Scale) with truncation, inside 32-bit integers.              *)
(***************************************************************************)
EXTENDS Integers, Sequences, FiniteSets, TLC

VARIABLES
    loading,        \* useState(false)
    results,        \* useState([]): the ranked list
    error,          \* useState(""): the error / info message
    lastUpdated,    \* useState(null): None or Some(minute)
    userLocation,   \* useState(null): None or Some(location)
    sessionStorage, \* [wildfireData, mapHotspots]: None or Some(stored item)
    now,            \* Date.now(), in minutes
    nextTick,       \* when the setInterval callback is next due
    pc,             \* per search: where its async function is suspended
    loc,            \* per search: const location (None before geocoding)
    wf,             \* per search: let wildfires
    cerr,           \* per search: `error` as captured by the closure
    tr,             \* per search: history of the invocation in flight
    ev,             \* history: the last step taken
    lastSet,        \* history: the latest setCachedData call
    started,        \* history: searchWildfires invocations past the blank check
    arg,            \* unit specifications: the input drawn
    ret             \* unit specifications: the value returned

vars == <<loading, results, error, lastUpdated, userLocation,
          sessionStorage, now, nextTick, pc, loc, wf, cerr, tr, ev, lastSet,
          started, arg, ret>>

appVars == <<loading, results, error, lastUpdated, userLocation,
             sessionStorage, now, nextTick, pc, loc, wf, cerr, tr, ev, lastSet,
             started>>

None == <<>>
Some(v) == <<v>>

(***************************************************************************)
(* Bounds of the model.                                                    *)
(***************************************************************************)
MaxTime == 11
MaxFeatures == 2
MaxDistance == 104
MaxSearches == 2

(***************************************************************************)
(* Messages.                                                               *)
(***************************************************************************)
InvalidInputMsg == "Please enter an address"
DegradedMsg == "Could not fetch live data. Showing recent examples."
AreaClearMsg == "No active wildfires found in the database. Your area is clear."
AddressNotFoundMsg ==
    "Address not found. Please try a more specific address in Newfoundland & Labrador."
TransportMsg == "Failed to fetch"
BadJsonMsg == "Unexpected token < in JSON at position 0"

HttpErrorMsg(status) ==
    "HTTP error! status: " \o (IF status = 404 THEN "404" ELSE "500")

GeocodingFailed(msg) == "Geocoding failed: " \o msg

(***************************************************************************)
(* calculateDistance: the haversine formula in fixed point.                *)
(***************************************************************************)
R == 6371
Scale == 10000
PiScaled == 31416
HalfPiScaled == PiScaled \div 2

Abs(x) == IF x < 0 THEN -x ELSE x

Min(x, y) == IF x < y THEN x ELSE y

RECURSIVE SqrtIter(_, _)
SqrtIter(n, g) ==
    LET h == (g + n \div g) \div 2
    IN  IF h >= g THEN g ELSE SqrtIter(n, h)

\* Math.sqrt on a non-negative integer, truncated
Sqrt(n) == IF n < 2 THEN n ELSE SqrtIter(n, n)

\* (deg * Math.PI) / 180, for an angle in hundredths of a degree
ToRadians(cdeg) ==
    LET a == (Abs(cdeg) * PiScaled) \div 18000
    IN  IF cdeg < 0 THEN -a ELSE a

Half(x) == IF x < 0 THEN -((-x) \div 2) ELSE x \div 2

\* Taylor series of sin on [0, pi/2]
SinSeries(x) ==
    LET x2 == (x * x) \div Scale
        t3 == ((x * x2) \div Scale) \div 6
        t5 == ((t3 * x2) \div Scale) \div 20
        t7 == ((t5 * x2) \div Scale) \div 42
        t9 == ((t7 * x2) \div Scale) \div 72
    IN  x - t3 + t5 - t7 + t9

\* Math.sin on [-pi, pi]
Sin(x) ==
    LET ax == Abs(x)
        r == IF ax > HalfPiScaled THEN SinSeries(PiScaled - ax) ELSE SinSeries(ax)
    IN  IF x < 0 THEN -r ELSE r

\* Math.cos on [-pi/2, pi/2]
Cos(x) == Sin(HalfPiScaled - Abs(x))

\* Taylor series of atan on [0, sqrt(2) - 1]
AtanSeries(r) ==
    LET r2 == (r * r) \div Scale
        t3 == (r * r2) \div Scale
        t5 == (t3 * r2) \div Scale
        t7 == (t5 * r2) \div Scale
        t9 == (t7 * r2) \div Scale
    IN  r - t3 \div 3 + t5 \div 5 - t7 \div 7 + t9 \div 9

\* atan on [0, 1], by the half-angle identity
AtanUnit(r) ==
    LET h == Sqrt(Scale * Scale + r * r)
    IN  2 * AtanSeries((r * Scale) \div (Scale + h))

\* Math.atan2(y, x) for y >= 0 and x >= 0
Atan2(y, x) ==
    IF x = 0 /\ y = 0 THEN 0
    ELSE IF x >= y THEN AtanUnit((y * Scale) \div x)
    ELSE HalfPiScaled - AtanUnit((x * Scale) \div y)

\* a distance that weighs the longitudes by the first latitude only
calculateDistance_FirstLatitude(lat1, lon1, lat2, lon2) ==
    LET dLat == ToRadians(lat2 - lat1)
        dLon == ToRadians(lon2 - lon1)
        sLat == Sin(Half(dLat))
        sLon == Sin(Half(dLon))
        a0 == sLat * sLat
                + ((Cos(ToRadians(lat1)) * Cos(ToRadians(lat1))) \div Scale)
                    * ((sLon * sLon) \div Scale)
        a == Min(a0, Scale * Scale)
        c == 2 * Atan2(Sqrt(a), Sqrt(Scale * Scale - a))
    IN  (R * c) \div Scale

calculateDistance(lat1, lon1, lat2, lon2) ==
    LET dLat == ToRadians(lat2 - lat1)
        dLon == ToRadians(lon2 - lon1)
        sLat == Sin(Half(dLat))
        sLon == Sin(Half(dLon))
        a0 == sLat * sLat
                + ((Cos(ToRadians(lat1)) * Cos(ToRadians(lat2))) \div Scale)
                    * ((sLon * sLon) \div Scale)
        a == Min(a0, Scale * Scale)
        c == 2 * Atan2(Sqrt(a), Sqrt(Scale * Scale - a))
    IN  (R * c) \div Scale

(***************************************************************************)
(* getRiskLevel: only the level of the returned {level, color} is kept.    *)
(***************************************************************************)
getRiskLevel_BoundaryInclusive(distance, status) ==
    IF status = "OC" /\ distance <= 10 THEN "EXTREME RISK"
    ELSE IF status = "OC" /\ distance < 25 THEN "HIGH RISK"
    ELSE IF status = "OC" /\ distance < 50 THEN "MODERATE RISK"
    ELSE IF (status = "BH" \/ status = "OC") /\ distance < 100 THEN "LOW RISK"
    ELSE "MINIMAL RISK"

getRiskLevel(distance, status) ==
    IF status = "OC" /\ distance < 10 THEN "EXTREME RISK"
    ELSE IF status = "OC" /\ distance < 25 THEN "HIGH RISK"
    ELSE IF status = "OC" /\ distance < 50 THEN "MODERATE RISK"
    ELSE IF (status = "BH" \/ status = "OC") /\ distance < 100 THEN "LOW RISK"
    ELSE "MINIMAL RISK"

(***************************************************************************)
(* Values of the external services.                                        *)
(***************************************************************************)
\* a JS null / undefined where a number is expected
NullNum == -99999

\* JS truthiness of a number and of a string
TruthyNum(v) == v # NullNum /\ v # 0
TruthyStr(str) == str # ""

\* "" stands for a missing STATUS attribute, "XX" for an unknown code
Statuses == {"OC", "BH", "UC", "O", "XX", ""}

Feature(id, status, geometry) ==
    [attributes |-> [FIREID |-> id, STATUS |-> status], geometry |-> geometry]

Point(x, y) == Some([x |-> x, y |-> y])

fOC == Feature("A", "OC", Point(-5300, 4800))
fBH == Feature("B", "BH", Point(-5300, 4600))
fUC == Feature("C", "UC", Point(-5400, 4700))
fOut == Feature("D", "O", Point(-5400, 4710))
fNoGeometry == Feature("E", "OC", None)
fNoStatus == Feature("F", "", Point(-5310, 4720))
fUnknown == Feature("G", "XX", Point(-5320, 4730))
fEquator == Feature("H", "OC", Point(-5300, 0))
fNoY == Feature("I", "BH", Some([x |-> -5300, y |-> NullNum]))

FeaturePool == {fOC, fBH, fUC, fOut, fNoGeometry, fNoStatus, fUnknown, fEquator, fNoY}

\* the feature lists the searches of Spec are answered with
SearchFeatureLists == {<<>>, <<fOut, fNoGeometry>>, <<fBH, fOut, fOC>>}

\* sequences of at most n distinct elements of pool
RECURSIVE SeqsUpTo(_, _)
SeqsUpTo(pool, n) ==
    IF n = 0 THEN {<<>>}
    ELSE LET shorter == SeqsUpTo(pool, n - 1)
         IN  shorter \cup
             {Append(q, f) : q \in {p \in shorter : Len(p) = n - 1},
                             f \in pool}

Distinct(q) == \A i, j \in 1..Len(q) : i # j => q[i] # q[j]

DistinctSeqsUpTo(pool, n) == {q \in SeqsUpTo(pool, n) : Distinct(q)}

\* a response of a feature service: the fetch promise rejects, or resolves
\* with response.ok, a body that parses or not, data.error and data.features
FeatureResponse(rejected, ok, json, hasError, features) ==
    [rejected |-> rejected, ok |-> ok, json |-> json, hasError |-> hasError,
     features |-> features]

FailedResponses ==
    {FeatureResponse(TRUE, FALSE, FALSE, FALSE, None),
     FeatureResponse(FALSE, FALSE, FALSE, FALSE, None),
     FeatureResponse(FALSE, TRUE, FALSE, FALSE, None),
     FeatureResponse(FALSE, TRUE, TRUE, TRUE, None),
     FeatureResponse(FALSE, TRUE, TRUE, TRUE, Some(<<fOC>>))}

SuccessResponses(pool) ==
    {FeatureResponse(FALSE, TRUE, TRUE, FALSE, None)} \cup
    {FeatureResponse(FALSE, TRUE, TRUE, FALSE, Some(q)) :
        q \in DistinctSeqsUpTo(pool, MaxFeatures)}

\* what the claims call a failed fetch
FetchFailed(resp) == resp.rejected \/ ~resp.ok \/ ~resp.json \/ resp.hasError

WildfireResponses == FailedResponses \cup SuccessResponses(FeaturePool)

SearchWildfireResponses ==
    {r \in FailedResponses : r.features = None} \cup
    {FeatureResponse(FALSE, TRUE, TRUE, FALSE, None)} \cup
    {FeatureResponse(FALSE, TRUE, TRUE, FALSE, Some(q)) : q \in SearchFeatureLists}

(***************************************************************************)
(* getWildfireData                                                         *)
(***************************************************************************)
Fire(id, status, lat, lon) ==
    [FIREID |-> id, STATUS |-> status, LATITUDE |-> lat, LONGITUDE |-> lon]

FallbackFires ==
    << Fire("NL-2025-Kingston", "OC", 4775, -5318),
       Fire("NL-2025-Ochre", "OC", 4772, -5325),
       Fire("NL-2025-Trinity", "BH", 4765, -5338) >>

\* data.features.map(...)
MapFeature(feature) ==
    Fire(feature.attributes.FIREID, feature.attributes.STATUS,
         IF feature.geometry # None THEN feature.geometry[1].y ELSE NullNum,
         IF feature.geometry # None THEN feature.geometry[1].x ELSE NullNum)

KeepFire_AnyStatus(fire) ==
    /\ TruthyNum(fire.LATITUDE)
    /\ TruthyNum(fire.LONGITUDE)
    /\ TruthyStr(fire.STATUS)

\* the predicate of .filter(...)
KeepFire(fire) ==
    /\ TruthyNum(fire.LATITUDE)
    /\ TruthyNum(fire.LONGITUDE)
    /\ TruthyStr(fire.STATUS)
    /\ fire.STATUS \in {"OC", "BH", "UC"}

RECURSIVE MapFilter(_)
MapFilter(features) ==
    IF features = <<>> THEN <<>>
    ELSE LET fire == MapFeature(Head(features))
             rest == MapFilter(Tail(features))
         IN  IF KeepFire(fire) THEN <<fire>> \o rest ELSE rest

\* the try block: [threw, value]
WildfireTry(resp) ==
    IF resp.rejected \/ ~resp.ok \/ ~resp.json \/ resp.hasError
    THEN [threw |-> TRUE, value |-> <<>>]
    ELSE IF resp.features # None /\ Len(resp.features[1]) > 0
    THEN [threw |-> FALSE, value |-> MapFilter(resp.features[1])]
    ELSE [threw |-> FALSE, value |-> <<>>]

\* the whole function: what it returns, whether it raises to its caller and
\* the message it passes to setError (None: setError is not called)
\* a fetcher that has nothing to show after a failure
getWildfireData_EmptyOnFailure(resp) ==
    LET t == WildfireTry(resp)
    IN  IF t.threw
        THEN [threw |-> FALSE, value |-> <<>>, setError |-> Some(DegradedMsg)]
        ELSE [threw |-> FALSE, value |-> t.value, setError |-> None]

getWildfireData(resp) ==
    LET t == WildfireTry(resp)
    IN  IF t.threw
        THEN [threw |-> FALSE, value |-> FallbackFires, setError |-> Some(DegradedMsg)]
        ELSE [threw |-> FALSE, value |-> t.value, setError |-> None]

(***************************************************************************)
(* getHotspotData                                                          *)
(***************************************************************************)
HotspotFeature(id, lat, lon, confidence) ==
    [attributes |-> [OBJECTID |-> id, latitude |-> lat, longitude |-> lon,
                     confidence |-> confidence]]

hNear == HotspotFeature("7", 4750, -5350, "high")
hNoLatitude == HotspotFeature("8", NullNum, -5350, "low")

HotspotResponses ==
    {r \in FailedResponses : r.features = None} \cup
    {FeatureResponse(FALSE, TRUE, TRUE, FALSE, None)} \cup
    {FeatureResponse(FALSE, TRUE, TRUE, FALSE, Some(q)) :
        q \in {<<>>, <<hNoLatitude>>, <<hNoLatitude, hNear>>}}

MapHotspot(feature) ==
    [FIREID |-> "hotspot-" \o feature.attributes.OBJECTID,
     STATUS |-> feature.attributes.confidence,
     LATITUDE |-> feature.attributes.latitude,
     LONGITUDE |-> feature.attributes.longitude,
     isHotspot |-> TRUE]

RECURSIVE MapFilterHotspots(_)
MapFilterHotspots(features) ==
    IF features = <<>> THEN <<>>
    ELSE LET h == MapHotspot(Head(features))
             rest == MapFilterHotspots(Tail(features))
         IN  IF TruthyNum(h.LATITUDE) /\ TruthyNum(h.LONGITUDE)
             THEN <<h>> \o rest ELSE rest

\* a hotspot fetcher that falls back to an example on failure
getHotspotData_ExampleOnFailure(resp) ==
    IF resp.rejected \/ ~resp.ok \/ ~resp.json \/ resp.hasError
          \/ resp.features = None
    THEN <<MapHotspot(hNear)>>
    ELSE MapFilterHotspots(resp.features[1])

getHotspotData(resp) ==
    IF resp.rejected THEN <<>>
    ELSE IF ~resp.ok THEN <<>>
    ELSE IF ~resp.json THEN <<>>
    ELSE IF resp.hasError \/ resp.features = None THEN <<>>
    ELSE MapFilterHotspots(resp.features[1])

(***************************************************************************)
(* geocodeAddress                                                          *)
(***************************************************************************)
Candidate(x, y, score, addr) ==
    [location |-> [x |-> x, y |-> y], score |-> score, address |-> addr]

cStJohns == Candidate(-5300, 4700, 100, "St. John's")
cCornerBrook == Candidate(-5800, 4900, 90, "Corner Brook")

GeocodeResponse(rejected, ok, status, json, candidates) ==
    [rejected |-> rejected, ok |-> ok, status |-> status, json |-> json,
     candidates |-> candidates]

GeocodeResponses ==
    {GeocodeResponse(TRUE, FALSE, 0, FALSE, None),
     GeocodeResponse(FALSE, FALSE, 500, FALSE, None),
     GeocodeResponse(FALSE, TRUE, 200, FALSE, None),
     GeocodeResponse(FALSE, TRUE, 200, TRUE, None)} \cup
    {GeocodeResponse(FALSE, TRUE, 200, TRUE, Some(q)) :
        q \in {<<>>, <<cStJohns, cCornerBrook>>, <<cCornerBrook>>}}

\* the try block: [threw, message, value]
GeocodeTry(resp) ==
    IF resp.rejected
    THEN [threw |-> TRUE, message |-> TransportMsg, value |-> None]
    ELSE IF ~resp.ok
    THEN [threw |-> TRUE, message |-> HttpErrorMsg(resp.status), value |-> None]
    ELSE IF ~resp.json
    THEN [threw |-> TRUE, message |-> BadJsonMsg, value |-> None]
    ELSE IF resp.candidates # None /\ Len(resp.candidates[1]) > 0
    THEN LET c == resp.candidates[1][1]
         IN  [threw |-> FALSE, message |-> "",
              value |-> Some([lat |-> c.location.y, lng |-> c.location.x,
                              score |-> c.score, address |-> c.address])]
    ELSE [threw |-> TRUE, message |-> AddressNotFoundMsg, value |-> None]

\* a geocoder whose failures all carry one message
geocodeAddress_OneMessage(resp) ==
    LET t == GeocodeTry(resp)
    IN  IF t.threw
        THEN [threw |-> TRUE, message |-> "Geocoding failed", value |-> None]
        ELSE t

\* with the catch block, which wraps the message of whatever was thrown
geocodeAddress(resp) ==
    LET t == GeocodeTry(resp)
    IN  IF t.threw
        THEN [threw |-> TRUE, message |-> GeocodingFailed(t.message), value |-> None]
        ELSE t

(***************************************************************************)
(* The sessionStorage cache.                                               *)
(***************************************************************************)
\* maxAge = 10 * 60 * 1000 ms and the setInterval period, in minutes
maxAge == 10
ClearInterval == 10

\* JSON.stringify / JSON.parse of a value made of strings, finite numbers,
\* arrays and objects only (nothing that JSON drops or rewrites): the stored
\* text carries the value
JSONstringify(v) == [text |-> v]
JSONparse(item) == item.text

\* a lookup that deletes the entry it finds too old
getCachedData_EvictStale(storage, t) ==
    LET item == storage.wildfireData
        hasData == item # None
        timestamp == IF hasData THEN JSONparse(item[1]).timestamp ELSE 0
    IN  IF t - timestamp < maxAge /\ hasData
        THEN [value |-> Some(JSONparse(item[1]).data),
              setLastUpdated |-> Some(timestamp), storage |-> storage]
        ELSE [value |-> None, setLastUpdated |-> None,
              storage |-> [storage EXCEPT !.wildfireData = None]]

\* a lookup that also accepts an entry aged exactly maxAge
getCachedData_AgeInclusive(storage, t) ==
    LET item == storage.wildfireData
        hasData == item # None
        timestamp == IF hasData THEN JSONparse(item[1]).timestamp ELSE 0
    IN  IF t - timestamp <= maxAge /\ hasData
        THEN [value |-> Some(JSONparse(item[1]).data),
              setLastUpdated |-> Some(timestamp), storage |-> storage]
        ELSE [value |-> None, setLastUpdated |-> None, storage |-> storage]

\* a lookup that takes a stored empty list for no entry
getCachedData_EmptyIsMiss(storage, t) ==
    LET item == storage.wildfireData
        hasData == item # None /\ JSONparse(item[1]).data # <<>>
        timestamp == IF hasData THEN JSONparse(item[1]).timestamp ELSE 0
    IN  IF t - timestamp < maxAge /\ hasData
        THEN [value |-> Some(JSONparse(item[1]).data),
              setLastUpdated |-> Some(timestamp), storage |-> storage]
        ELSE [value |-> None, setLastUpdated |-> None, storage |-> storage]

\* [value, setLastUpdated, storage]: the value returned (None: null), the
\* argument of setLastUpdated (None: not called) and the session store after
\* the call (getItem only: as before it)
getCachedData(storage, t) ==
    LET item == storage.wildfireData
        hasData == item # None
        timestamp == IF hasData THEN JSONparse(item[1]).timestamp ELSE 0
        cacheAge == t - timestamp
    IN  IF cacheAge < maxAge /\ hasData
        THEN [value |-> Some(JSONparse(item[1]).data),
              setLastUpdated |-> Some(timestamp), storage |-> storage]
        ELSE [value |-> None, setLastUpdated |-> None, storage |-> storage]

\* a write that only replaces an entry that is still there
setCachedData_OnlyReplace(storage, data, t) ==
    [storage |-> IF storage.wildfireData = None THEN storage
                 ELSE [storage EXCEPT
                         !.wildfireData =
                             Some(JSONstringify([data |-> data, timestamp |-> t]))],
     setLastUpdated |-> Some(t)]

\* [storage, setLastUpdated]
setCachedData(storage, data, t) ==
    [storage |-> [storage EXCEPT
                    !.wildfireData = Some(JSONstringify([data |-> data, timestamp |-> t]))],
     setLastUpdated |-> Some(t)]

(***************************************************************************)
(* Distances and ranking.                                                  *)
(***************************************************************************)
\* {...fire, distance: calculateDistance(location.lat, location.lng, ...)}
WithDistance(location, fire) ==
    IF "isHotspot" \in DOMAIN fire
    THEN [FIREID |-> fire.FIREID, STATUS |-> fire.STATUS,
          LATITUDE |-> fire.LATITUDE, LONGITUDE |-> fire.LONGITUDE,
          isHotspot |-> fire.isHotspot,
          distance |-> calculateDistance(location.lat, location.lng,
                                         fire.LATITUDE, fire.LONGITUDE)]
    ELSE [FIREID |-> fire.FIREID, STATUS |-> fire.STATUS,
          LATITUDE |-> fire.LATITUDE, LONGITUDE |-> fire.LONGITUDE,
          distance |-> calculateDistance(location.lat, location.lng,
                                         fire.LATITUDE, fire.LONGITUDE)]

MapWithDistance(location, fires) ==
    [i \in 1..Len(fires) |-> WithDistance(location, fires[i])]

\* insertion of x before the first element that does not compare smaller
RECURSIVE InsertByDistance_BeforeEqual(_, _)
InsertByDistance_BeforeEqual(x, sorted) ==
    IF sorted = <<>> THEN <<x>>
    ELSE IF Head(sorted).distance - x.distance >= 0
    THEN <<x>> \o sorted
    ELSE <<Head(sorted)>> \o InsertByDistance_BeforeEqual(x, Tail(sorted))

\* insertion of x after every element that does not compare greater
RECURSIVE InsertByDistance(_, _)
InsertByDistance(x, sorted) ==
    IF sorted = <<>> THEN <<x>>
    ELSE IF Head(sorted).distance - x.distance > 0
    THEN <<x>> \o sorted
    ELSE <<Head(sorted)>> \o InsertByDistance(x, Tail(sorted))

RECURSIVE SortFrom(_, _)
SortFrom(fires, sorted) ==
    IF fires = <<>> THEN sorted
    ELSE SortFrom(Tail(fires), InsertByDistance(Head(fires), sorted))

\* the fires in the order the service gave them
SortByDistance_AsGiven(fires) == fires

\* .sort((a, b) => a.distance - b.distance): Array.prototype.sort is stable
SortByDistance(fires) == SortFrom(fires, <<>>)

(***************************************************************************)
(* The component: state after mounting, and the steps of its handlers.     *)
(***************************************************************************)
\* the searchWildfires invocations that may be in flight at once
Searches == {1, 2}

\* address texts: empty, whitespace only, and one with something in it
Addresses == {<<>>, <<" ">>, <<"a", " ">>}

RECURSIVE TrimLeft(_)
TrimLeft(a) == IF a # <<>> /\ Head(a) = " " THEN TrimLeft(Tail(a)) ELSE a

RECURSIVE TrimRight(_)
TrimRight(a) ==
    IF a # <<>> /\ a[Len(a)] = " " THEN TrimRight(SubSeq(a, 1, Len(a) - 1)) ELSE a

\* the text as typed
Trim_Nothing(a) == a

\* String.prototype.trim
Trim(a) == TrimRight(TrimLeft(a))

\* what an invocation has done so far: the cache entry its getCachedData
\* call found ("absent", "stale", "fresh"; "none" before the call) and
\* whether the call returned data, the requests it issued to the three
\* services, its setCachedData calls, where its fire data came from,
\* whether another invocation took a step meanwhile, whether the timer
\* ticked during its fetch, and the timestamp of the cache entry that gave
\* or took its fire data
BlankTrace ==
    [look |-> "none", hit |-> FALSE, geo |-> 0, fire |-> 0, hot |-> 0,
     sets |-> 0, fetched |-> "none", disturbed |-> FALSE, cleared |-> FALSE,
     stamp |-> None]

\* the histories after a step of invocation s: every other invocation in
\* flight has seen a step that is not its own
Disturb(trace, s) ==
    [o \in Searches |->
        IF o # s /\ pc[o] # "idle"
        THEN [trace[o] EXCEPT !.disturbed = TRUE]
        ELSE trace[o]]

\* the entry under "wildfireData" as the claims classify it at minute t
CacheEntryState(storage, t) ==
    IF storage.wildfireData = None THEN "absent"
    ELSE IF t - storage.wildfireData[1].text.timestamp >= maxAge THEN "stale"
    ELSE "fresh"

\* the last step: its kind, the search that took it (0: none) and, for a
\* step that settles a search, the path the search ended on, where the fire
\* data of the search came from, whether another invocation took a step
\* while it was in flight, whether its hotspot request failed, and the
\* timestamp of the cache entry that gave or took its fire data
Event(op, s, path) ==
    [op |-> op, s |-> s, path |-> path,
     fetched |-> "none", disturbed |-> FALSE, hotFailed |-> FALSE,
     stamp |-> None]

\* what the claims call a failed hotspot fetch
HotspotFailed(resp) ==
    resp.rejected \/ ~resp.ok \/ ~resp.json \/ resp.hasError
        \/ resp.features = None

\* how the claims name the outcome of a geocoding request
GeoKind(resp) ==
    IF resp.rejected THEN "transport"
    ELSE IF ~resp.ok THEN "http"
    ELSE IF ~resp.json THEN "parse"
    ELSE IF resp.candidates = None \/ resp.candidates[1] = <<>> THEN "notFound"
    ELSE "ok"

AppInit ==
    /\ loading = FALSE
    /\ results = <<>>
    /\ error = ""
    /\ lastUpdated = None
    /\ userLocation = None
    /\ sessionStorage = [wildfireData |-> None, mapHotspots |-> None]
    /\ now = 0
    /\ nextTick = ClearInterval
    /\ pc = [s \in Searches |-> "idle"]
    /\ loc = [s \in Searches |-> None]
    /\ wf = [s \in Searches |-> <<>>]
    /\ cerr = [s \in Searches |-> ""]
    /\ tr = [s \in Searches |-> BlankTrace]
    /\ ev = Event("mount", 0, "")
    /\ lastSet = None
    /\ started = 0

Init == AppInit /\ arg = None /\ ret = None

\* a cache lookup whose result is never used
Falsy_Always(wildfires) == TRUE

\* `!wildfires` of searchWildfires: null is falsy, an array (even an empty
\* one) is not
Falsy(wildfires) == wildfires = None

\* a list view that shows the hotspots after the fires
RankedList_WithHotspots(firesWithDistance, hotspotsWithDistance) ==
    firesWithDistance \o hotspotsWithDistance

\* a list view that a search leaves alone while another one is in flight
RankedList_UnlessOverlapping(firesWithDistance, hotspotsWithDistance) ==
    IF \A o \in Searches : pc[o] # "idle" THEN results ELSE firesWithDistance

\* the argument of setResults: the wildfires only, no hotspots in the list
\* view
RankedList(firesWithDistance, hotspotsWithDistance) == firesWithDistance

\* a search that leaves the spinner on when it settles
Release_StillLoading(s, event) ==
    /\ loading' = loading
    /\ pc' = [pc EXCEPT ![s] = "idle"]
    /\ loc' = [loc EXCEPT ![s] = None]
    /\ wf' = [wf EXCEPT ![s] = <<>>]
    /\ cerr' = [cerr EXCEPT ![s] = ""]
    /\ tr' = Disturb([tr EXCEPT ![s] = BlankTrace], s)
    /\ ev' = [event EXCEPT !.fetched = tr[s].fetched,
                           !.disturbed = tr[s].disturbed,
                           !.stamp = tr[s].stamp]

\* a search that waits for ever after a geocoding failure
Release_HangOnGeocodeFailure(s, event) ==
    IF event.path = "geocodeFailed"
    THEN /\ pc' = [pc EXCEPT ![s] = "hung"]
         /\ tr' = Disturb(tr, s)
         /\ ev' = event
         /\ UNCHANGED <<loading, loc, wf, cerr>>
    ELSE /\ loading' = FALSE
         /\ pc' = [pc EXCEPT ![s] = "idle"]
         /\ loc' = [loc EXCEPT ![s] = None]
         /\ wf' = [wf EXCEPT ![s] = <<>>]
         /\ cerr' = [cerr EXCEPT ![s] = ""]
         /\ tr' = Disturb([tr EXCEPT ![s] = BlankTrace], s)
         /\ ev' = [event EXCEPT !.fetched = tr[s].fetched,
                                !.disturbed = tr[s].disturbed,
                                !.stamp = tr[s].stamp]

\* a search that asks the geocoder once more after a failure
Release_RetryGeocode(s, event) ==
    IF event.path = "geocodeFailed" /\ tr[s].geo < 2
    THEN /\ tr' = Disturb([tr EXCEPT ![s].geo = @ + 1], s)
         /\ ev' = Event("geocodeRetry", s, "")
         /\ UNCHANGED <<loading, pc, loc, wf, cerr>>
    ELSE /\ loading' = FALSE
         /\ pc' = [pc EXCEPT ![s] = "idle"]
         /\ loc' = [loc EXCEPT ![s] = None]
         /\ wf' = [wf EXCEPT ![s] = <<>>]
         /\ cerr' = [cerr EXCEPT ![s] = ""]
         /\ tr' = Disturb([tr EXCEPT ![s] = BlankTrace], s)
         /\ ev' = [event EXCEPT !.fetched = tr[s].fetched,
                                !.disturbed = tr[s].disturbed,
                                !.stamp = tr[s].stamp]

\* the search that settles leaves its slot as it found it
Release(s, event) ==
    /\ loading' = FALSE
    /\ pc' = [pc EXCEPT ![s] = "idle"]
    /\ loc' = [loc EXCEPT ![s] = None]
    /\ wf' = [wf EXCEPT ![s] = <<>>]
    /\ cerr' = [cerr EXCEPT ![s] = ""]
    /\ tr' = Disturb([tr EXCEPT ![s] = BlankTrace], s)
    /\ ev' = [event EXCEPT !.fetched = tr[s].fetched,
                           !.disturbed = tr[s].disturbed,
                           !.stamp = tr[s].stamp]

\* a handler that clears the displayed list before it looks at the address
searchWildfires_ClearFirst(s, address) ==
    /\ pc[s] = "idle"
    /\ \A o \in Searches : o < s => pc[o] # "idle"
    /\ results' = <<>>
    /\ IF Trim(address) = <<>>
       THEN /\ error' = InvalidInputMsg
            /\ ev' = Event("blank", s, "")
            /\ tr' = Disturb(tr, s)
            /\ UNCHANGED <<loading, pc, cerr>>
            /\ UNCHANGED started
       ELSE /\ started < MaxSearches
            /\ started' = started + 1
            /\ loading' = TRUE
            /\ error' = ""
            /\ pc' = [pc EXCEPT ![s] = "geocode"]
            /\ cerr' = [cerr EXCEPT ![s] = error]
            /\ tr' = Disturb([tr EXCEPT ![s] = [BlankTrace EXCEPT !.geo = 1]], s)
            /\ ev' = Event("start", s, "")
    /\ UNCHANGED <<lastUpdated, userLocation, sessionStorage, now,
                   nextTick, loc, wf, lastSet, arg, ret>>

\* searchWildfires up to its first await (the fetch of geocodeAddress);
\* address is the text of the address input when the handler runs
searchWildfires(s, address) ==
    /\ pc[s] = "idle"
    /\ \A o \in Searches : o < s => pc[o] # "idle"
    /\ IF Trim(address) = <<>>
       THEN /\ error' = InvalidInputMsg
            /\ ev' = Event("blank", s, "")
            /\ tr' = Disturb(tr, s)
            /\ UNCHANGED <<loading, results, pc, cerr>>
            /\ UNCHANGED started
       ELSE /\ started < MaxSearches
            /\ started' = started + 1
            /\ loading' = TRUE
            /\ error' = ""
            /\ results' = <<>>
            /\ pc' = [pc EXCEPT ![s] = "geocode"]
            /\ cerr' = [cerr EXCEPT ![s] = error]
            /\ tr' = Disturb([tr EXCEPT ![s] = [BlankTrace EXCEPT !.geo = 1]], s)
            /\ ev' = Event("start", s, "")
    /\ UNCHANGED <<lastUpdated, userLocation, sessionStorage, now,
                   nextTick, loc, wf, lastSet, arg, ret>>

\* onKeyPress of the address input: Enter
PressEnter(s, address) == searchWildfires(s, address)

\* onClick of the search button, disabled while loading
ClickSearch(s, address) == ~loading /\ searchWildfires(s, address)

\* the geocoding request settles: searchWildfires from `await
\* geocodeAddress` to its next await (getWildfireData or getHotspotData),
\* or to its catch and finally blocks
GeocodeReturn(s, resp) ==
    /\ pc[s] = "geocode"
    /\ LET g == geocodeAddress(resp)
           c == getCachedData(sessionStorage, now)
       IN  IF g.threw
           THEN /\ error' = g.message
                /\ Release(s, Event("settle", s, "geocodeFailed"))
                /\ UNCHANGED <<userLocation, lastUpdated, sessionStorage>>
           ELSE /\ userLocation' = g.value
                /\ sessionStorage' = c.storage
                /\ loc' = [loc EXCEPT ![s] = g.value]
                /\ lastUpdated' = IF c.setLastUpdated # None
                                  THEN c.setLastUpdated ELSE lastUpdated
                /\ IF Falsy(c.value)
                   THEN /\ pc' = [pc EXCEPT ![s] = "wildfire"]
                        /\ tr' = Disturb([tr EXCEPT
                                    ![s].look = CacheEntryState(sessionStorage, now),
                                    ![s].hit = c.value # None,
                                    ![s].fire = @ + 1], s)
                        /\ UNCHANGED wf
                   ELSE /\ wf' = [wf EXCEPT ![s] = c.value[1]]
                        /\ pc' = [pc EXCEPT ![s] = "hotspot"]
                        /\ tr' = Disturb([tr EXCEPT
                                    ![s].look = CacheEntryState(sessionStorage, now),
                                    ![s].hit = c.value # None,
                                    ![s].fetched = "cache",
                                    ![s].stamp = c.setLastUpdated,
                                    ![s].hot = @ + 1], s)
                /\ ev' = Event("geocoded", s, "")
                /\ UNCHANGED <<loading, error, cerr>>
    /\ UNCHANGED <<results, now, nextTick, lastSet, started, arg, ret>>

\* the wildfire request settles: from `await getWildfireData()` through
\* setCachedData to `await getHotspotData()`
WildfireReturn(s, resp) ==
    /\ pc[s] = "wildfire"
    /\ LET w == getWildfireData(resp)
           c == setCachedData(sessionStorage, w.value, now)
       IN  /\ error' = IF w.setError # None THEN w.setError[1] ELSE error
           /\ wf' = [wf EXCEPT ![s] = w.value]
           /\ sessionStorage' = c.storage
           /\ lastUpdated' = c.setLastUpdated
           /\ lastSet' = Some([data |-> w.value, at |-> now, ticked |-> FALSE])
           /\ pc' = [pc EXCEPT ![s] = "hotspot"]
           /\ tr' = Disturb([tr EXCEPT
                       ![s].fetched = IF w.setError # None THEN "fallback" ELSE "live",
                       ![s].sets = @ + 1,
                       ![s].stamp = Some(now),
                       ![s].hot = @ + 1], s)
           /\ ev' = Event("fetched", s, "")
           /\ UNCHANGED <<loading, loc, cerr>>
    /\ UNCHANGED <<results, userLocation, now, nextTick, started, arg, ret>>

\* the hotspot request settles: the rest of searchWildfires
HotspotReturn(s, resp) ==
    /\ pc[s] = "hotspot"
    /\ LET hotspots == getHotspotData(resp)
           location == loc[s][1]
           hotspotsWithDistance == MapWithDistance(location, hotspots)
           firesWithDistance == SortByDistance(MapWithDistance(location, wf[s]))
       IN  IF Len(wf[s]) = 0
           THEN /\ results' = <<>>
                /\ error' = IF cerr[s] = "" THEN AreaClearMsg ELSE error
                /\ sessionStorage' =
                     IF Len(hotspots) > 0
                     THEN [sessionStorage EXCEPT
                             !.mapHotspots = Some(JSONstringify(hotspotsWithDistance))]
                     ELSE sessionStorage
                /\ Release(s, [Event("settle", s, "empty") EXCEPT
                                  !.hotFailed = HotspotFailed(resp)])
           ELSE /\ results' = RankedList(firesWithDistance, hotspotsWithDistance)
                /\ sessionStorage' =
                     [sessionStorage EXCEPT
                        !.mapHotspots = Some(JSONstringify(hotspotsWithDistance))]
                /\ error' = error
                /\ Release(s, [Event("settle", s, "ranked") EXCEPT
                                  !.hotFailed = HotspotFailed(resp)])
    /\ UNCHANGED <<lastUpdated, userLocation, now, nextTick, lastSet,
                   started, arg, ret>>

\* a timer that removes the entry only once it is too old
Tick_OnlyStale ==
    /\ now >= nextTick
    /\ sessionStorage' =
         IF CacheEntryState(sessionStorage, now) = "fresh"
         THEN [sessionStorage EXCEPT !.mapHotspots = None]
         ELSE [wildfireData |-> None, mapHotspots |-> None]
    /\ nextTick' = nextTick + ClearInterval
    /\ lastSet' = IF lastSet = None THEN None
                  ELSE Some([lastSet[1] EXCEPT !.ticked = TRUE])
    /\ tr' = [s \in Searches |->
                 IF pc[s] = "wildfire"
                 THEN [tr[s] EXCEPT !.cleared = TRUE]
                 ELSE tr[s]]
    /\ ev' = Event("tick", 0, "")
    /\ UNCHANGED <<loading, results, error, lastUpdated, userLocation,
                   now, pc, loc, wf, cerr, started, arg, ret>>

\* the setInterval callback of the useEffect
Tick ==
    /\ now >= nextTick
    /\ sessionStorage' = [wildfireData |-> None, mapHotspots |-> None]
    /\ nextTick' = nextTick + ClearInterval
    /\ lastSet' = IF lastSet = None THEN None
                  ELSE Some([lastSet[1] EXCEPT !.ticked = TRUE])
    /\ tr' = [s \in Searches |->
                 IF pc[s] = "wildfire"
                 THEN [tr[s] EXCEPT !.cleared = TRUE]
                 ELSE tr[s]]
    /\ ev' = Event("tick", 0, "")
    /\ UNCHANGED <<loading, results, error, lastUpdated, userLocation,
                   now, pc, loc, wf, cerr, started, arg, ret>>

\* the minutes at which the clock is read: at mounting, one minute later
\* and MaxTime minutes later
Instants == {0, 1, MaxTime}

\* time passes, up to the next of these minutes
Advance ==
    /\ \E t \in Instants :
          /\ t > now
          /\ \A u \in Instants : u > now => t <= u
          /\ now' = t
    /\ ev' = Event("advance", 0, "")
    /\ UNCHANGED <<loading, results, error, lastUpdated, userLocation,
                   sessionStorage, nextTick, pc, loc, wf, cerr, tr, lastSet,
                   started, arg, ret>>

Next ==
    \/ \E s \in Searches, a \in Addresses : PressEnter(s, a)
    \/ \E s \in Searches, a \in Addresses : ClickSearch(s, a)
    \/ \E s \in Searches, resp \in GeocodeResponses : GeocodeReturn(s, resp)
    \/ \E s \in Searches, resp \in SearchWildfireResponses : WildfireReturn(s, resp)
    \/ \E s \in Searches, resp \in HotspotResponses : HotspotReturn(s, resp)
    \/ Tick
    \/ Advance

Spec == Init /\ [][Next]_vars

(***************************************************************************)
(* Unit specifications: one call of a function on an input drawn from a    *)
(* bounded set, in the component as mounted.                               *)
(***************************************************************************)
RiskInputs ==
    {[distance |-> d, status |-> st] : d \in 0..MaxDistance, st \in Statuses}

InitRisk == AppInit /\ arg \in {Some(i) : i \in RiskInputs} /\ ret = None

CallGetRiskLevel ==
    /\ ret = None
    /\ ret' = Some(getRiskLevel(arg[1].distance, arg[1].status))
    /\ UNCHANGED <<appVars, arg>>

NextRisk == CallGetRiskLevel

SpecRisk == InitRisk /\ [][NextRisk]_vars

InitFetch == AppInit /\ arg \in {Some(r) : r \in WildfireResponses} /\ ret = None

\* getWildfireData called on its own: ret is what the caller sees
CallGetWildfireData ==
    /\ ret = None
    /\ LET w == getWildfireData(arg[1])
       IN  /\ ret' = Some([threw |-> w.threw, value |-> w.value])
           /\ error' = IF w.setError # None THEN w.setError[1] ELSE error
    /\ UNCHANGED <<loading, results, lastUpdated, userLocation, sessionStorage,
                   now, nextTick, pc, loc, wf, cerr, tr, ev, lastSet, started,
                   arg>>

NextFetch == CallGetWildfireData

SpecFetch == InitFetch /\ [][NextFetch]_vars

\* latitudes and longitudes in hundredths of a degree: the poles, the
\* equator, the antimeridian and places in Newfoundland
Latitudes == {-9000, 0, 4700, 4800, 9000}
Longitudes == {-18000, -5800, -5300, 0, 18000}

DistanceInputs ==
    {[lat1 |-> a, lon1 |-> b, lat2 |-> c, lon2 |-> d] :
        a \in Latitudes, b \in Longitudes, c \in Latitudes, d \in Longitudes}

InitDistance == AppInit /\ arg \in {Some(i) : i \in DistanceInputs} /\ ret = None

CallCalculateDistance ==
    /\ ret = None
    /\ ret' = Some(calculateDistance(arg[1].lat1, arg[1].lon1,
                                     arg[1].lat2, arg[1].lon2))
    /\ UNCHANGED <<appVars, arg>>

NextDistance == CallCalculateDistance

SpecDistance == InitDistance /\ [][NextDistance]_vars

\* the hotspot request of search s is answered: HotspotReturn(s, resp) is
\* enabled exactly when pc[s] = "hotspot", whatever resp is, and every step
\* of it moves pc[s] to "idle"
HotspotAnswered(s) ==
    /\ pc[s] = "hotspot"
    /\ pc' = [pc EXCEPT ![s] = "idle"]

\* every request the component issues is answered in the end, with a
\* response or with a failure
Answered ==
    \A s \in Searches :
        /\ WF_vars(\E resp \in GeocodeResponses : GeocodeReturn(s, resp))
        /\ WF_vars(\E resp \in SearchWildfireResponses : WildfireReturn(s, resp))
        /\ WF_pc(HotspotAnswered(s))

SpecAnswered == Init /\ [][Next]_vars /\ Answered

(***************************************************************************)
(* C1: for every status and every distance d >= 0, getRiskLevel returns    *)
(* EXTREME if OC and d < 10, HIGH if OC and 10 <= d < 25, MODERATE if OC   *)
(* and 25 <= d < 50, LOW if (OC and 50 <= d < 100) or (BH and d < 100),    *)
(* MINIMAL otherwise; 10, 25, 50 and 100 fall into the lower-risk tier.    *)
(***************************************************************************)
C1_RiskDecisionTable ==
    ret # None =>
        LET d == arg[1].distance
            st == arg[1].status
        IN  /\ (st = "OC" /\ d < 10) => ret[1] = "EXTREME RISK"
            /\ (st = "OC" /\ 10 <= d /\ d < 25) => ret[1] = "HIGH RISK"
            /\ (st = "OC" /\ 25 <= d /\ d < 50) => ret[1] = "MODERATE RISK"
            /\ (st = "OC" /\ 50 <= d /\ d < 100) => ret[1] = "LOW RISK"
            /\ (st = "BH" /\ d < 100) => ret[1] = "LOW RISK"
            /\ (st \notin {"OC", "BH"} \/ d >= 100) => ret[1] = "MINIMAL RISK"

\* an out-of-control fire at exactly 10 km has been classified HIGH
C1_Witness ==
    /\ ret = Some("HIGH RISK")
    /\ arg[1].distance = 10
    /\ arg[1].status = "OC"

(***************************************************************************)
(* C2: whenever the wildfire fetch fails (transport error, non-2xx status, *)
(* an error field, an unparsable body), getWildfireData does not raise: it *)
(* sets the degraded-mode message and returns the fixed fallback set of    *)
(* exactly 4 records.                                                      *)
(***************************************************************************)
C2_FailedFetchReturnsFourFallbackRecords ==
    (ret # None /\ FetchFailed(arg[1])) =>
        /\ ~ret[1].threw
        /\ error = DegradedMsg
        /\ ret[1].value = FallbackFires
        /\ Len(ret[1].value) = 4

(***************************************************************************)
(* C10: for every successful wildfire response, no record whose status is  *)
(* "O", missing or outside {OC, BH, UC}, and no record without geometry    *)
(* coordinates, appears in the output of getWildfireData.                  *)
(***************************************************************************)
Unlocated(feature) ==
    \/ feature.geometry = None
    \/ feature.geometry[1].x = NullNum
    \/ feature.geometry[1].y = NullNum

Inactive(feature) == feature.attributes.STATUS \notin {"OC", "BH", "UC"}

C10_NoInactiveOrUnlocatedRecord ==
    (ret # None /\ ~FetchFailed(arg[1]) /\ arg[1].features # None) =>
        LET features == arg[1].features[1]
            out == ret[1].value
        IN  /\ \A i \in 1..Len(features) :
                  (Inactive(features[i]) \/ Unlocated(features[i])) =>
                      \A j \in 1..Len(out) :
                          out[j].FIREID # features[i].attributes.FIREID
            /\ \A j \in 1..Len(out) :
                  /\ out[j].STATUS \in {"OC", "BH", "UC"}
                  /\ out[j].LATITUDE # NullNum
                  /\ out[j].LONGITUDE # NullNum

\* a response with an "O" record and an active one has been filtered
C10_Witness ==
    /\ ret # None
    /\ arg[1].features = Some(<<fOut, fOC>>)
    /\ ~FetchFailed(arg[1])
    /\ ret[1].value = <<MapFeature(fOC)>>

(***************************************************************************)
(* C3: getCachedData never returns a payload aged 10 minutes or more: in   *)
(* every reachable state, if no entry is stored or now - timestamp >= 10,  *)
(* getCachedData returns none, and a search whose lookup found no entry or *)
(* a stale one got no data from the cache.                                 *)
(***************************************************************************)
C3_NoPayloadAtOrPastTTL ==
    /\ (\/ sessionStorage.wildfireData = None
        \/ now - sessionStorage.wildfireData[1].text.timestamp >= 10)
          => getCachedData(sessionStorage, now).value = None
    /\ \A s \in Searches :
          tr[s].look \in {"absent", "stale"} =>
              /\ ~tr[s].hit
              /\ tr[s].fetched # "cache"

\* a search has looked up an entry aged exactly 10 minutes and goes on to
\* fetch
C3_Witness ==
    \E s \in Searches :
        /\ tr[s].look = "stale"
        /\ now - sessionStorage.wildfireData[1].text.timestamp = 10
        /\ ~tr[s].hit
        /\ pc[s] = "wildfire"

(***************************************************************************)
(* C4, as stated: after setCachedData(records) at t, a getCachedData call  *)
(* at t' with no setCachedData in between returns exactly that payload     *)
(* (the empty list included) when t' - t < 10, and none when t' - t >= 10. *)
(***************************************************************************)
C4_FreshEntryIsReturned ==
    (ev.op = "geocoded" /\ lastSet # None) =>
        LET s == ev.s
            age == now - lastSet[1].at
        IN  /\ age < 10 =>
                  /\ tr[s].hit
                  /\ wf[s] = lastSet[1].data
            /\ age >= 10 => ~tr[s].hit

(***************************************************************************)
(* C4, amended: the payload is returned when t' - t < 10 and neither a     *)
(* setCachedData nor a tick of the cache-clearing timer came in between;   *)
(* when t' - t >= 10 the call returns none.                                *)
(***************************************************************************)
C4_FreshUnclearedEntryIsReturned ==
    (ev.op = "geocoded" /\ lastSet # None) =>
        LET s == ev.s
            age == now - lastSet[1].at
        IN  /\ (age < 10 /\ ~lastSet[1].ticked) =>
                  /\ tr[s].hit
                  /\ wf[s] = lastSet[1].data
            /\ age >= 10 => ~tr[s].hit

\* a search has just been handed a stored empty list, less than 10 minutes
\* old
C4_Witness ==
    /\ ev.op = "geocoded"
    /\ lastSet # None
    /\ lastSet[1].data = <<>>
    /\ ~lastSet[1].ticked
    /\ now - lastSet[1].at < 10
    /\ tr[ev.s].hit
    /\ wf[ev.s] = <<>>
    /\ pc[ev.s] = "hotspot"

(***************************************************************************)
(* C5: a search whose getCachedData call returned data issues no request   *)
(* to the wildfire service and does not call setCachedData; a wildfire     *)
(* request is issued only by a search whose getCachedData returned none.   *)
(***************************************************************************)
C5_HitSkipsFetchAndStore ==
    \A s \in Searches :
        /\ tr[s].hit =>
              /\ tr[s].fire = 0
              /\ tr[s].sets = 0
              /\ pc[s] # "wildfire"
        /\ (tr[s].fire > 0 \/ pc[s] = "wildfire") =>
              /\ tr[s].look \in {"absent", "stale"}
              /\ ~tr[s].hit

\* a search was served from the cache and is waiting for the hotspots only
C5_Witness ==
    \E s \in Searches :
        /\ tr[s].hit
        /\ tr[s].look = "fresh"
        /\ pc[s] = "hotspot"
        /\ tr[s].fire = 0

(***************************************************************************)
(* C6: a search with a non-blank address whose geocoding succeeds and      *)
(* whose active-fire set is empty settles with an empty ranked list and    *)
(* the "area clear" message, whatever the message was before it started.   *)
(***************************************************************************)
C6_EmptyFireSetGivesAreaClear ==
    (ev.op = "settle" /\ ev.path = "empty") =>
        /\ results = <<>>
        /\ error = AreaClearMsg

(***************************************************************************)
(* C7: a search that settles with a non-empty active-fire set leaves a     *)
(* result list that is a permutation of that set, every fire once and      *)
(* extended with its distance to the geocoded location, sorted             *)
(* non-decreasing by distance.                                             *)
(***************************************************************************)
Occurrences(q, x) == Cardinality({i \in 1..Len(q) : q[i] = x})

Ranked(location, fire) ==
    [FIREID |-> fire.FIREID, STATUS |-> fire.STATUS,
     LATITUDE |-> fire.LATITUDE, LONGITUDE |-> fire.LONGITUDE,
     distance |-> calculateDistance(location.lat, location.lng,
                                    fire.LATITUDE, fire.LONGITUDE)]

C7_ResultsSortedPermutation ==
    [][\A s \in Searches :
          (pc[s] = "hotspot" /\ pc'[s] = "idle" /\ Len(wf[s]) > 0) =>
              /\ Len(results') = Len(wf[s])
              /\ \A i \in 1..Len(wf[s]) :
                    Occurrences(results', Ranked(loc[s][1], wf[s][i]))
                        = Occurrences(wf[s], wf[s][i])
              /\ \A i \in 1..(Len(results') - 1) :
                    results'[i].distance <= results'[i + 1].distance]_vars

\* the fires B, A of the response have been ranked A, B
C7_Witness ==
    /\ ev.op = "settle"
    /\ ev.path = "ranked"
    /\ Len(results) = 2
    /\ results[1].FIREID = "A"
    /\ results[2].FIREID = "B"
    /\ results[1].distance < results[2].distance

(***************************************************************************)
(* C8: for every blank address (empty or whitespace only), searchWildfires *)
(* sets the InvalidInput message and issues no request to the geocoding,   *)
(* wildfire or hotspot service.                                            *)
(***************************************************************************)
IsBlank(address) == \A i \in 1..Len(address) : address[i] = " "

C8_BlankAddressRejectedWithoutRequest ==
    [][\A s \in Searches, a \in Addresses :
          (IsBlank(a) /\ PressEnter(s, a)) =>
              /\ error' = InvalidInputMsg
              /\ UNCHANGED <<pc, loading, results, sessionStorage>>
              /\ \A o \in Searches :
                    /\ tr'[o].geo = tr[o].geo
                    /\ tr'[o].fire = tr[o].fire
                    /\ tr'[o].hot = tr[o].hot]_vars

\* a blank address has been rejected while another search was in flight
C8_Witness ==
    /\ ev.op = "blank"
    /\ error = InvalidInputMsg
    /\ \E s \in Searches : pc[s] = "geocode" /\ tr[s].geo = 1
    /\ \A s \in Searches : pc[s] = "idle" => tr[s] = BlankTrace

(***************************************************************************)
(* C9: geocodeAddress fails with the address-not-found message when the    *)
(* service returns zero or no candidates and with a different message on a *)
(* non-2xx status or a transport error, and searchWildfires leaves the     *)
(* message of the failure, unchanged, in the error state.                  *)
(***************************************************************************)
C9_GeocodeFailuresDistinguishable ==
    [][\A s \in Searches, resp \in GeocodeResponses :
          GeocodeReturn(s, resp) =>
              /\ GeoKind(resp) = "notFound" =>
                    /\ error' = "Geocoding failed: " \o AddressNotFoundMsg
                    /\ pc'[s] = "idle"
              /\ GeoKind(resp) = "http" =>
                    /\ error' = "Geocoding failed: HTTP error! status: 500"
                    /\ pc'[s] = "idle"
              /\ GeoKind(resp) = "transport" =>
                    /\ error' = "Geocoding failed: " \o TransportMsg
                    /\ pc'[s] = "idle"
              /\ GeoKind(resp) \in {"http", "transport"} =>
                    error' # "Geocoding failed: " \o AddressNotFoundMsg]_vars

\* a search has just failed on an address the service does not know
C9_Witness ==
    /\ ev.op = "settle"
    /\ ev.path = "geocodeFailed"
    /\ error = "Geocoding failed: " \o AddressNotFoundMsg
    /\ ~loading

(***************************************************************************)
(* C11: in every reachable state the ranked result list contains no        *)
(* hotspot record; the hotspots a search fetched are written to the        *)
(* "mapHotspots" store only.                                               *)
(***************************************************************************)
C11_NoHotspotInResults ==
    \A i \in 1..Len(results) :
        /\ "isHotspot" \notin DOMAIN results[i]
        /\ results[i].FIREID # MapHotspot(hNear).FIREID

\* a search has settled with fires in the list and a hotspot in the map store
C11_Witness ==
    /\ ev.op = "settle"
    /\ ev.path = "ranked"
    /\ Len(results) > 0
    /\ sessionStorage.mapHotspots # None
    /\ Len(JSONparse(sessionStorage.mapHotspots[1])) = 1
    /\ JSONparse(sessionStorage.mapHotspots[1])[1].isHotspot

(***************************************************************************)
(* C12, as stated: a search whose geocoding succeeds and whose wildfire    *)
(* fetch fails settles with the fallback records sorted by distance in the *)
(* ranked list and with the degraded-mode banner as the message.           *)
(***************************************************************************)
HoldsFallbackSorted(q) ==
    /\ Len(q) = Len(FallbackFires)
    /\ \A i \in 1..Len(FallbackFires) :
          \E k \in 1..Len(q) :
              /\ q[k].FIREID = FallbackFires[i].FIREID
              /\ q[k].STATUS = FallbackFires[i].STATUS
              /\ q[k].LATITUDE = FallbackFires[i].LATITUDE
              /\ q[k].LONGITUDE = FallbackFires[i].LONGITUDE
    /\ \A k \in 1..(Len(q) - 1) : q[k].distance <= q[k + 1].distance

C12_FailedFetchSettlesDegraded ==
    (ev.op = "settle" /\ ev.fetched = "fallback") =>
        /\ HoldsFallbackSorted(results)
        /\ error = DegradedMsg

(***************************************************************************)
(* C12, amended: such a search settles with the fallback records sorted by *)
(* distance in the ranked list, and, when no other invocation of           *)
(* searchWildfires took a step while it was in flight, with the            *)
(* degraded-mode banner as the message.                                    *)
(***************************************************************************)
C12_UndisturbedFailedFetchSettlesDegraded ==
    (ev.op = "settle" /\ ev.fetched = "fallback") =>
        /\ HoldsFallbackSorted(results)
        /\ ~ev.disturbed => error = DegradedMsg

\* a search on its own has settled on the fallback records
C12_Witness ==
    /\ ev.op = "settle"
    /\ ev.fetched = "fallback"
    /\ ~ev.disturbed
    /\ error = DegradedMsg
    /\ Len(results) = 3
    /\ ~loading

(***************************************************************************)
(* C13: in every reachable state the entry under "wildfireData", when      *)
(* present, holds the result of a successful live fetch; the fallback set  *)
(* returned after a failed fetch is never written to the cache.            *)
(***************************************************************************)
C13_CacheHoldsLiveFetchOnly ==
    /\ sessionStorage.wildfireData # None =>
          JSONparse(sessionStorage.wildfireData[1]).data # FallbackFires
    /\ \A s \in Searches : tr[s].sets > 0 => tr[s].fetched = "live"

(***************************************************************************)
(* C14: every tick of the timer removes the cache entry whatever its age,  *)
(* whether or not a search is in flight; after a tick getCachedData        *)
(* returns none until the next setCachedData; the tick leaves results,     *)
(* message, loading and user location unchanged.                           *)
(***************************************************************************)
C14_TickClearsWhateverTheAge ==
    [][/\ nextTick' # nextTick =>
             /\ sessionStorage'.wildfireData = None
             /\ UNCHANGED <<results, error, loading, userLocation>>
       /\ (lastSet' # None /\ lastSet'[1].ticked) =>
             getCachedData(sessionStorage', now').value = None]_vars

\* the timer has just removed an entry younger than 10 minutes while a
\* search was in flight
C14_Witness ==
    /\ ev.op = "tick"
    /\ lastSet # None
    /\ now - lastSet[1].at < 10
    /\ sessionStorage.wildfireData = None
    /\ \E s \in Searches : pc[s] # "idle"

(***************************************************************************)
(* C15: if the timer fires after a search has missed the cache and before  *)
(* that search calls setCachedData, then after the setCachedData the cache *)
(* holds that search's payload with the timestamp of the write.            *)
(***************************************************************************)
C15_WriteAfterClearSurvives ==
    \A s \in Searches :
        (ev.op = "fetched" /\ ev.s = s /\ tr[s].cleared) =>
            /\ sessionStorage.wildfireData # None
            /\ JSONparse(sessionStorage.wildfireData[1]).data = wf[s]
            /\ JSONparse(sessionStorage.wildfireData[1]).timestamp = now

\* a search has just stored its payload after a tick during its fetch
C15_Witness ==
    \E s \in Searches :
        /\ ev.op = "fetched"
        /\ ev.s = s
        /\ tr[s].cleared
        /\ ~tr[s].hit
        /\ sessionStorage.wildfireData # None
        /\ Len(wf[s]) > 0

ListOf(s) ==
    IF Len(wf[s]) = 0 THEN <<>>
    ELSE SortByDistance(MapWithDistance(loc[s][1], wf[s]))

C17_LookupLeavesStoreAlone ==
    [][/\ ev'.op = "geocoded" => sessionStorage' = sessionStorage
       /\ sessionStorage'.wildfireData # sessionStorage.wildfireData =>
             ev'.op \in {"tick", "fetched"}]_vars

\* a lookup has just missed on a stale entry, which is still stored
C17_Witness ==
    /\ ev.op = "geocoded"
    /\ tr[ev.s].look = "stale"
    /\ ~tr[ev.s].hit
    /\ sessionStorage.wildfireData # None
    /\ now - JSONparse(sessionStorage.wildfireData[1]).timestamp >= 10

(***************************************************************************)
(* C18: for every failure of the hotspot fetch (transport error, non-2xx   *)
(* status, unparsable body, error field, missing features) getHotspotData  *)
(* returns the empty sequence, and the search that called it settles with  *)
(* the ranked list, the message and the map store of a search whose        *)
(* hotspot fetch returned no hotspots.                                     *)
(***************************************************************************)
C18_HotspotFailureIsSilent ==
    [][/\ \A resp \in HotspotResponses :
             HotspotFailed(resp) => getHotspotData(resp) = <<>>
       /\ \A s \in Searches :
             (pc[s] = "hotspot" /\ pc'[s] = "idle" /\ ev'.hotFailed) =>
                 /\ results' = ListOf(s)
                 /\ error' = IF Len(wf[s]) = 0 /\ cerr[s] = ""
                             THEN AreaClearMsg ELSE error
                 /\ sessionStorage' =
                       IF Len(wf[s]) = 0 THEN sessionStorage
                       ELSE [sessionStorage EXCEPT
                               !.mapHotspots = Some(JSONstringify(<<>>))]]_vars

\* a search whose hotspot request failed has settled with a ranked list
C18_Witness ==
    /\ ev.op = "settle"
    /\ ev.path = "ranked"
    /\ ev.hotFailed
    /\ Len(results) > 0
    /\ sessionStorage.mapHotspots = Some(JSONstringify(<<>>))

(***************************************************************************)
(* C19: no operation retries: an invocation of searchWildfires issues at   *)
(* most one geocoding request, at most one wildfire request and at most    *)
(* one hotspot request; a failed request is not issued again.              *)
(***************************************************************************)
C19_AtMostOneRequestPerService ==
    \A s \in Searches :
        /\ tr[s].geo <= 1
        /\ tr[s].fire <= 1
        /\ tr[s].hot <= 1
        /\ tr[s].sets <= 1
        /\ pc[s] = "idle" => tr[s].geo = 0
        /\ tr[s].fetched = "fallback" => (tr[s].fire = 1 /\ pc[s] = "hotspot")

\* a search whose wildfire request failed has gone on to the hotspots
C19_Witness ==
    \E s \in Searches :
        /\ tr[s].fetched = "fallback"
        /\ tr[s].geo = 1
        /\ tr[s].fire = 1
        /\ tr[s].hot = 1
        /\ pc[s] = "hotspot"

(***************************************************************************)
(* C20: the ranked list is a stable sort of the active-fire set: two fires *)
(* at equal distance from the user location keep, in the result, the       *)
(* order they have in the fetched or cached sequence.                      *)
(***************************************************************************)
Position(q, id) == CHOOSE k \in 1..Len(q) : q[k].FIREID = id

C20_EqualDistancesKeepOrder ==
    [][\A s \in Searches :
          (pc[s] = "hotspot" /\ pc'[s] = "idle" /\ Len(wf[s]) > 0) =>
              \A i, j \in 1..Len(wf[s]) :
                  (/\ i < j
                   /\ results'[Position(results', wf[s][i].FIREID)].distance
                         = results'[Position(results', wf[s][j].FIREID)].distance) =>
                      Position(results', wf[s][i].FIREID)
                          < Position(results', wf[s][j].FIREID)]_vars

\* the fires B, A of the response, at the same distance, are ranked B, A
C20_Witness ==
    /\ ev.op = "settle"
    /\ ev.path = "ranked"
    /\ Len(results) = 2
    /\ results[1].FIREID = "B"
    /\ results[2].FIREID = "A"
    /\ results[1].distance = results[2].distance

C22_FallbackListCarriesDegradedMessage ==
    (/\ ev.op = "settle"
     /\ ev.path = "ranked"
     /\ ~ev.disturbed
     /\ HoldsFallbackSorted(results)) => error = DegradedMsg

(***************************************************************************)
(* C23: whenever no search is in flight and the ranked list is not empty,   *)
(* every distance in it is the distance from the stored userLocation to the *)
(* record, also after two overlapping searches.                             *)
(***************************************************************************)
C23_DistancesFromStoredLocation ==
    ((\A s \in Searches : pc[s] = "idle") /\ results # <<>>) =>
        /\ userLocation # None
        /\ \A i \in 1..Len(results) :
              results[i].distance =
                  calculateDistance(userLocation[1].lat, userLocation[1].lng,
                                    results[i].LATITUDE, results[i].LONGITUDE)

(***************************************************************************)
(* C24: loading is true exactly when some search with a non-blank address   *)
(* has started and has not settled; with overlapping searches it stays true *)
(* until the last of them settles.                                          *)
(***************************************************************************)
C24_LoadingIffSearchInFlight ==
    loading <=> (\E s \in Searches : pc[s] # "idle")

(***************************************************************************)
(* C25: a search whose geocoding fails issues no wildfire and no hotspot    *)
(* request and leaves the cache entry and the stored hotspot list as they   *)
(* are; when it settles the ranked list is empty, the message is the        *)
(* message of the geocoding failure and loading is false.                   *)
(***************************************************************************)
GeocodingFailureMsgs ==
    {"Geocoding failed: " \o AddressNotFoundMsg,
     "Geocoding failed: HTTP error! status: 500",
     "Geocoding failed: " \o TransportMsg,
     "Geocoding failed: " \o BadJsonMsg}

C25_GeocodeFailureSettlesEmpty ==
    (ev.op = "settle" /\ ev.path = "geocodeFailed") =>
        /\ results = <<>>
        /\ error \in GeocodingFailureMsgs
        /\ ~loading

(***************************************************************************)
(* C25, amended: such a search issues no wildfire and no hotspot request    *)
(* and leaves the cache entry and the stored hotspot list as they are; when *)
(* it settles the message is the message of the geocoding failure, loading  *)
(* is false, and, when no other invocation of searchWildfires took a step   *)
(* while it was in flight, the ranked list is empty.                        *)
(***************************************************************************)
C25_UndisturbedGeocodeFailureSettlesEmpty ==
    [][\A s \in Searches :
          (pc[s] = "geocode" /\ pc'[s] = "idle") =>
              /\ tr[s].fire = 0
              /\ tr[s].hot = 0
              /\ tr[s].sets = 0
              /\ pc'[s] = "idle"
              /\ sessionStorage' = sessionStorage
              /\ error' \in GeocodingFailureMsgs
              /\ ~loading'
              /\ ~tr[s].disturbed => results' = <<>>]_vars

\* a search on its own has failed at the geocoder while the cache and the
\* hotspot store held the data of an earlier search
C25_Witness ==
    /\ ev.op = "settle"
    /\ ev.path = "geocodeFailed"
    /\ ~ev.disturbed
    /\ error = "Geocoding failed: " \o TransportMsg
    /\ results = <<>>
    /\ ~loading
    /\ sessionStorage.wildfireData # None
    /\ sessionStorage.mapHotspots # None

(***************************************************************************)
(* C26: a search with a blank address changes the message only: results,    *)
(* loading, userLocation, lastUpdated, the cache entry and the stored       *)
(* hotspot list are after the call what they were before it.                *)
(***************************************************************************)
C26_BlankAddressChangesMessageOnly ==
    [][\A s \in Searches, a \in Addresses :
          (IsBlank(a) /\ PressEnter(s, a)) =>
              /\ error' = "Please enter an address"
              /\ UNCHANGED <<results, loading, userLocation, lastUpdated,
                             sessionStorage>>]_vars

\* a blank address has been rejected next to a displayed ranked list
C26_Witness ==
    /\ ev.op = "blank"
    /\ error = "Please enter an address"
    /\ results # <<>>
    /\ userLocation # None
    /\ lastUpdated # None
    /\ sessionStorage.wildfireData # None

(***************************************************************************)
(* C27: every feature of a successful response whose geometry has a        *)
(* latitude in [-90, 90] and a longitude in [-180, 180], exactly 0         *)
(* included, and whose status is OC, BH or UC is in the output of          *)
(* getWildfireData exactly once, in response order: the output is this     *)
(* filtered subsequence of the response.                                   *)
(***************************************************************************)
LocatedActive(fire) ==
    /\ fire.LATITUDE # NullNum
    /\ fire.LATITUDE >= -9000 /\ fire.LATITUDE <= 9000
    /\ fire.LONGITUDE # NullNum
    /\ fire.LONGITUDE >= -18000 /\ fire.LONGITUDE <= 18000
    /\ fire.STATUS \in {"OC", "BH", "UC"}

C27_OutputIsLocatedActiveSubsequence ==
    (ret # None /\ ~FetchFailed(arg[1]) /\ arg[1].features # None) =>
        LET features == arg[1].features[1]
            mapped == [i \in 1..Len(features) |-> MapFeature(features[i])]
        IN  ret[1].value = SelectSeq(mapped, LocatedActive)

(***************************************************************************)
(* C28: after a search that settles without a geocoding failure the list   *)
(* stored under "mapHotspots" is the list that search fetched, also when   *)
(* it fetched no hotspot and an empty fire set: no list of an earlier      *)
(* search remains.  Stated for a search whose hotspot request failed, which *)
(* fetched the empty list, and that no other invocation interleaved with.   *)
(***************************************************************************)
C28_StoredHotspotsAreThoseOfTheSearch ==
    (/\ ev.op = "settle"
     /\ ev.path \in {"ranked", "empty"}
     /\ ~ev.disturbed
     /\ ev.hotFailed) =>
        sessionStorage.mapHotspots \in {None, Some(JSONstringify(<<>>))}

(***************************************************************************)
(* C29: whenever a search settles with fire data, lastUpdated is the write  *)
(* timestamp of the cache entry that gave or took that data, also when      *)
(* searches overlap; and lastUpdated is never later than the current time.  *)
(***************************************************************************)
C29_LastUpdatedIsStampOfSettledData ==
    /\ lastUpdated # None => lastUpdated[1] <= now
    /\ (ev.op = "settle" /\ ev.path \in {"ranked", "empty"}) =>
            lastUpdated = ev.stamp

(***************************************************************************)
(* C30: when every request is answered in the end, every search that has    *)
(* started settles in the end, and whenever no search is in flight loading  *)
(* is false, whichever path the searches ended on.                          *)
(***************************************************************************)
C30_EverySearchSettles ==
    /\ \A s \in Searches : (pc[s] # "idle") ~> (pc[s] = "idle")
    /\ []((\A s \in Searches : pc[s] = "idle") => ~loading)

\* the second of two searches has settled on the empty path after the first
\* had failed at the geocoder
C30_Witness ==
    /\ ev.op = "settle"
    /\ ev.path = "empty"
    /\ started = MaxSearches
    /\ \A s \in Searches : pc[s] = "idle"
    /\ error # AreaClearMsg
    /\ ~loading

====
